---- MODULE Spec2Model ----
(***************************************************************************)
(* A model of marketmover-radar's stream manager                           *)
(* (src/data_collectors/websocket_handler.py, class WebSocketManager) and  *)
(* of its time-series store (src/database/db_manager.py).                  *)
(*                                                                         *)
(* WebSocketManager: one caller (the main thread, src/main.py:136-180)     *)
(* runs add_connection / close_connection / close_all statement by         *)
(* statement; every connection thread (run_websocket) runs concurrently    *)
(* with it.  No lock protects the four registry dictionaries, so each      *)
(* dictionary access is one step.                                          *)
(***************************************************************************)
EXTENDS Integers, Sequences, FiniteSets, TLC

\* ------------------------------------------------------------------ bounds
MaxThreads == 3
\* thread slots, inbound messages and calls of the manager's interface
MaxMsgs == 2
MaxCalls == 3

\* ------------------------------------------------------- program constants
\* self.reconnect_intervals.get(name, 30)
DefaultInterval == 30

Names == {"a", "b"}

\* the arguments every add_connection(name, ...) is called with: the
\* reconnect_interval (> 0) and whether subscription_msg is non-empty
IntervalOf(n) == IF n = "a" THEN 1 ELSE 2
SubMsgOf(n) == n = "a"
ThreadIds == 1..MaxThreads

\* values of self.connections[name]: a websocket object is identified by the
\* thread that created it (run_websocket creates exactly one); NoConn is an
\* absent key, ClosedWs a websocket object whose thread has ended.
NoConn == 0
ClosedWs == -1

VARIABLES
    calls,                \* calls the caller has made so far
    connections,          \* self.connections        name -> websocket
    callbacks,            \* self.callbacks          name -> handler present
    stop_events,          \* self.stop_events        name -> absent/clear/set
    reconnect_intervals,  \* self.reconnect_intervals name -> seconds, 0 absent
    threads,              \* the connection threads and their websockets
    caller,               \* the main thread's position in the manager's code
    handled,              \* messages passed to a handler so far
    stopped,              \* history: close_connection(name) has set the stop
                          \* signal while name's registered connection was open, and
                          \* add_connection(name) has not been called since
    shutdown              \* history: close_all has returned and
                          \* add_connection has not been called since

wsvars == <<connections, callbacks, stop_events, reconnect_intervals,
            threads, caller, handled, stopped, shutdown, calls>>

\* the store's state (DatabaseManager, below)
VARIABLES
    dbst,        \* "new" before DatabaseManager(), then "ready" or "failed"
    use_redis,   \* self.use_redis
    now,         \* int(time.time())
    zset,        \* Redis: ts:crypto:<symbol>:<interval>, a set of
                 \* [member, score] with one score per member
    expire_at,   \* Redis: the time the key of a series expires, 0 for none
    rows,        \* SQLite: the rows of crypto_data (id is AUTOINCREMENT)
    result,      \* what the last get_crypto_data returned
    outcome,     \* how the last store or get ended
    writes,      \* calls of store_crypto_data so far
    ticks,       \* changes of the clock so far
    rnews,       \* Redis: the news:<id> hashes, news:timeline and the
                 \* news:category:<c> and news:asset:<a> sets
    snews,       \* SQLite: news_data, news_categories and news_assets
    ranalysis,   \* Redis: the analysis:<id> hashes and analysis:timeline
    sanalysis,   \* SQLite: the rows of analysis_results
    other        \* outcome and result of a second DatabaseManager, when
                 \* two are driven side by side

\* what the candle operations leave alone
dbrest == <<rnews, snews, ranalysis, sanalysis, other>>

dbvars == <<dbst, use_redis, now, zset, expire_at, rows, result, outcome,
            writes, ticks, dbrest>>

\* the trend detector's call (TrendDetector, below)
VARIABLES
    td_data,     \* the candle list the last detect_* call was given
    td_window,   \* its window argument, 0 when it has none
    detected     \* the dictionary it returned

tdvars == <<td_data, td_window, detected>>

vars == <<wsvars, dbvars, tdvars>>

\* again: the thread was started by the reconnect path (line 141)
FreeThread ==
    [st |-> "free", name |-> "a", sent |-> FALSE,
     sinceRaise |-> 0, wait |-> 0, superseded |-> FALSE, again |-> FALSE]

\* warned: the last call ended in the warning of line 165
IdleCaller ==
    [pc |-> "idle", name |-> "a", todo |-> {}, ret |-> "idle", warned |-> FALSE]

WsInit ==
    /\ connections = [n \in Names |-> NoConn]
    /\ callbacks = [n \in Names |-> FALSE]
    /\ stop_events = [n \in Names |-> "absent"]
    /\ reconnect_intervals = [n \in Names |-> 0]
    /\ threads = [t \in ThreadIds |-> FreeThread]
    /\ caller = IdleCaller
    /\ handled = 0
    /\ calls = 0
    /\ stopped = [n \in Names |-> FALSE]
    /\ shutdown = FALSE

\* ------------------------------------------------------------ the caller --

\* a call of add_connection(name, url, on_message, SubMsgOf(name),
\* IntervalOf(name)), up to line 38:
\*   if name in self.connections: self.close_connection(name)
\* (close_connection's own test of line 150 then sees the same dictionary
\* unless a thread registered in between; it is taken at line 150 again).
\* The thread the call will start needs a free slot.
add_connection(n) ==
    /\ caller.pc = "idle"
    /\ calls < MaxCalls
    /\ calls' = calls + 1
    /\ \E t \in ThreadIds : threads[t].st = "free"
    /\ caller' = [IdleCaller EXCEPT
                     !.pc = IF connections[n] # NoConn THEN "cc_150" ELSE "ac_43",
                     !.name = n, !.ret = "ac_43"]
    /\ stopped' = [stopped EXCEPT ![n] = FALSE]
    /\ shutdown' = FALSE
    /\ UNCHANGED <<connections, callbacks, stop_events, reconnect_intervals,
                   threads, handled>>
    /\ UNCHANGED <<dbvars, tdvars>>

\* line 43: self.stop_events[name] = threading.Event()
add_connection_43 ==
    /\ caller.pc = "ac_43"
    /\ stop_events' = [stop_events EXCEPT ![caller.name] = "clear"]
    /\ caller' = [caller EXCEPT !.pc = "ac_44"]
    /\ UNCHANGED <<connections, callbacks, reconnect_intervals, threads,
                   handled, stopped>>
    /\ UNCHANGED calls
    /\ UNCHANGED shutdown
    /\ UNCHANGED <<dbvars, tdvars>>

\* line 44: self.callbacks[name] = on_message
add_connection_44 ==
    /\ caller.pc = "ac_44"
    /\ callbacks' = [callbacks EXCEPT ![caller.name] = TRUE]
    /\ caller' = [caller EXCEPT !.pc = "ac_45"]
    /\ UNCHANGED <<connections, stop_events, reconnect_intervals, threads,
                   handled, stopped>>
    /\ UNCHANGED calls
    /\ UNCHANGED shutdown
    /\ UNCHANGED <<dbvars, tdvars>>

\* line 45: self.reconnect_intervals[name] = reconnect_interval
add_connection_45 ==
    /\ caller.pc = "ac_45"
    /\ reconnect_intervals' =
           [reconnect_intervals EXCEPT ![caller.name] = IntervalOf(caller.name)]
    /\ caller' = [caller EXCEPT !.pc = "ac_77"]
    /\ UNCHANGED <<connections, callbacks, stop_events, threads, handled, stopped>>
    /\ UNCHANGED calls
    /\ UNCHANGED shutdown
    /\ UNCHANGED <<dbvars, tdvars>>

\* _start_connection_thread, lines 106-107: thread.start()
StartThread(n) ==
    [FreeThread EXCEPT !.st = "new", !.name = n]

\* line 77: self._start_connection_thread(name, url, subscription_msg)
add_connection_77 ==
    /\ caller.pc = "ac_77"
    /\ \E t \in ThreadIds :
          /\ threads[t].st = "free"
          /\ \A u \in ThreadIds : threads[u].st = "free" => t <= u
          /\ threads' = [threads EXCEPT ![t] = StartThread(caller.name)]
    /\ caller' = IdleCaller
    /\ UNCHANGED <<connections, callbacks, stop_events, reconnect_intervals,
                   handled, stopped>>
    /\ UNCHANGED calls
    /\ UNCHANGED shutdown
    /\ UNCHANGED <<dbvars, tdvars>>

\* a direct call of close_connection(name)
CallClose(n) ==
    /\ caller.pc = "idle"
    /\ calls < MaxCalls
    /\ calls' = calls + 1
    /\ caller' = [IdleCaller EXCEPT !.pc = "cc_150", !.name = n, !.ret = "idle"]
    /\ UNCHANGED <<connections, callbacks, stop_events, reconnect_intervals,
                   threads, handled, stopped>>
    /\ UNCHANGED shutdown
    /\ UNCHANGED <<dbvars, tdvars>>

\* faulty variant of close_connection_150: the stop signal is set before the test
\* of line 150
close_connection_150_SetsStop ==
    /\ caller.pc = "cc_150"
    /\ stop_events' = IF stop_events[caller.name] # "absent"
                         THEN [stop_events EXCEPT ![caller.name] = "set"]
                         ELSE stop_events
    /\ caller' = IF connections[caller.name] # NoConn
                   THEN [caller EXCEPT !.pc = "cc_157"]
                   ELSE IF caller.ret = "idle"
                          THEN [IdleCaller EXCEPT !.name = caller.name,
                                                  !.warned = TRUE]
                          ELSE [caller EXCEPT !.pc = caller.ret]
    /\ UNCHANGED <<connections, callbacks, reconnect_intervals, threads,
                   handled, stopped, calls, shutdown>>
    /\ UNCHANGED <<dbvars, tdvars>>

\* line 150: if name in self.connections: ... else: logger.warning(...)
close_connection_150 ==
    /\ caller.pc = "cc_150"
    /\ caller' = IF connections[caller.name] # NoConn
                   THEN [caller EXCEPT !.pc = "cc_152"]
                   ELSE IF caller.ret = "idle"
                          THEN [IdleCaller EXCEPT !.name = caller.name,
                                                  !.warned = TRUE]
                          ELSE [caller EXCEPT !.pc = caller.ret]
    /\ UNCHANGED <<connections, callbacks, stop_events, reconnect_intervals,
                   threads, handled, stopped>>
    /\ UNCHANGED calls
    /\ UNCHANGED shutdown
    /\ UNCHANGED <<dbvars, tdvars>>

\* lines 152-153: if name in self.stop_events: self.stop_events[name].set()
\* The history variable records that a direct call sets the stop signal
\* while the name's registered connection is open.
close_connection_152 ==
    /\ caller.pc = "cc_152"
    /\ stop_events' = IF stop_events[caller.name] # "absent"
                         THEN [stop_events EXCEPT ![caller.name] = "set"]
                         ELSE stop_events
    /\ stopped' = [stopped EXCEPT ![caller.name] =
                      \/ @
                      \/ /\ caller.ret = "idle"
                         /\ stop_events[caller.name] # "absent"
                         /\ connections[caller.name] \in ThreadIds
                         /\ threads[connections[caller.name]].st = "open"]
    /\ caller' = [caller EXCEPT !.pc = "cc_157"]
    /\ UNCHANGED <<connections, callbacks, reconnect_intervals, threads,
                   handled>>
    /\ UNCHANGED calls
    /\ UNCHANGED shutdown
    /\ UNCHANGED <<dbvars, tdvars>>

\* WebSocketApp.close() on websocket w.  An open socket is closed and its
\* thread goes on to on_close.  On a websocket that is still connecting the
\* call either aborts the connect (hit) or is lost, run_forever setting
\* keep_running again; a closed websocket is left as it is.  The thread is
\* marked superseded when the close comes from add_connection.
WsClose(w, hit, fromAdd) ==
    IF w \in ThreadIds /\ threads[w].st \in {"connecting", "open"}
      THEN [threads EXCEPT
              ![w].st = IF threads[w].st = "open" \/ hit THEN "closed" ELSE @,
              ![w].sent = IF threads[w].st = "open" \/ hit THEN FALSE ELSE @,
              ![w].sinceRaise = IF threads[w].st = "open" \/ hit THEN 0 ELSE @,
              ![w].superseded = @ \/ fromAdd]
      ELSE threads

\* lines 156-160: self.connections[name].close(), any exception logged.
\* A KeyError cannot happen: only the caller removes keys.
close_connection_157 ==
    /\ caller.pc = "cc_157"
    /\ \E hit \in BOOLEAN :
          /\ (hit = FALSE \/ (connections[caller.name] \in ThreadIds
                 /\ threads[connections[caller.name]].st = "connecting"))
          /\ threads' = WsClose(connections[caller.name], hit, caller.ret = "ac_43")
    /\ caller' = [caller EXCEPT !.pc = "cc_163"]
    /\ UNCHANGED <<connections, callbacks, stop_events, reconnect_intervals,
                   handled, stopped>>
    /\ UNCHANGED calls
    /\ UNCHANGED shutdown
    /\ UNCHANGED <<dbvars, tdvars>>

\* line 163: self.connections.pop(name, None), then return
close_connection_163 ==
    /\ caller.pc = "cc_163"
    /\ connections' = [connections EXCEPT ![caller.name] = NoConn]
    /\ caller' = IF caller.ret = "idle"
                   THEN [IdleCaller EXCEPT !.name = caller.name]
                   ELSE [caller EXCEPT !.pc = caller.ret]
    /\ UNCHANGED <<callbacks, stop_events, reconnect_intervals, threads,
                   handled, stopped>>
    /\ UNCHANGED calls
    /\ UNCHANGED shutdown
    /\ UNCHANGED <<dbvars, tdvars>>

\* a call of close_all, line 169: for name in list(self.connections.keys())
close_all ==
    /\ caller.pc = "idle"
    /\ calls < MaxCalls
    /\ calls' = calls + 1
    /\ caller' = [IdleCaller EXCEPT !.pc = "ca_169", !.ret = "ca_169",
                     !.todo = {n \in Names : connections[n] # NoConn}]
    /\ UNCHANGED <<connections, callbacks, stop_events, reconnect_intervals,
                   threads, handled, stopped>>
    /\ UNCHANGED shutdown
    /\ UNCHANGED <<dbvars, tdvars>>

\* lines 169-170: the next name of the snapshot: self.close_connection(name)
close_all_169 ==
    /\ caller.pc = "ca_169"
    /\ caller.todo # {}
    /\ \E n \in caller.todo :
          caller' = [caller EXCEPT !.pc = "cc_150", !.name = n,
                                   !.todo = caller.todo \ {n}]
    /\ UNCHANGED <<connections, callbacks, stop_events, reconnect_intervals,
                   threads, handled, stopped>>
    /\ UNCHANGED calls
    /\ UNCHANGED shutdown
    /\ UNCHANGED <<dbvars, tdvars>>

\* line 173: self.connections = {}
close_all_173 ==
    /\ caller.pc = "ca_169"
    /\ caller.todo = {}
    /\ connections' = [n \in Names |-> NoConn]
    /\ caller' = [caller EXCEPT !.pc = "ca_174"]
    /\ UNCHANGED <<callbacks, stop_events, reconnect_intervals, threads,
                   handled, stopped>>
    /\ UNCHANGED calls
    /\ UNCHANGED shutdown
    /\ UNCHANGED <<dbvars, tdvars>>

\* line 174: self.callbacks = {}
close_all_174 ==
    /\ caller.pc = "ca_174"
    /\ callbacks' = [n \in Names |-> FALSE]
    /\ caller' = [caller EXCEPT !.pc = "ca_175"]
    /\ UNCHANGED <<connections, stop_events, reconnect_intervals, threads,
                   handled, stopped>>
    /\ UNCHANGED calls
    /\ UNCHANGED shutdown
    /\ UNCHANGED <<dbvars, tdvars>>

\* line 175: self.stop_events = {}
close_all_175 ==
    /\ caller.pc = "ca_175"
    /\ stop_events' = [n \in Names |-> "absent"]
    /\ caller' = [caller EXCEPT !.pc = "ca_176"]
    /\ UNCHANGED <<connections, callbacks, reconnect_intervals, threads,
                   handled, stopped>>
    /\ UNCHANGED calls
    /\ UNCHANGED shutdown
    /\ UNCHANGED <<dbvars, tdvars>>

\* line 176: self.reconnect_intervals = {}, then return
close_all_176 ==
    /\ caller.pc = "ca_176"
    /\ reconnect_intervals' = [n \in Names |-> 0]
    /\ caller' = IdleCaller
    /\ shutdown' = TRUE
    /\ UNCHANGED <<connections, callbacks, stop_events, threads, handled, stopped>>
    /\ UNCHANGED calls
    /\ UNCHANGED <<dbvars, tdvars>>

\* ------------------------------------------------ the connection threads --

\* a reference to thread t's websocket left in the registry once the thread
\* has ended is a reference to a closed websocket object
Unlink(t) ==
    [n \in Names |-> IF connections[n] = t THEN ClosedWs ELSE connections[n]]

\* run_websocket, lines 90-98: ws = WebSocketApp(...); self.connections[name] = ws
run_websocket(t) ==
    /\ threads[t].st = "new"
    /\ connections' = [connections EXCEPT ![threads[t].name] = t]
    /\ threads' = [threads EXCEPT ![t].st = "connecting"]
    /\ UNCHANGED <<callbacks, stop_events, reconnect_intervals, caller,
                   handled, stopped>>
    /\ UNCHANGED calls
    /\ UNCHANGED shutdown
    /\ UNCHANGED <<dbvars, tdvars>>

\* faulty variant of on_open_wrapper: the message is sent whether or not it
\* is empty
on_open_wrapper_Unconditional(t) ==
    /\ threads[t].st = "connecting"
    /\ threads' = [threads EXCEPT ![t].st = "open", ![t].sent = TRUE]
    /\ UNCHANGED <<connections, callbacks, stop_events, reconnect_intervals,
                   caller, handled, stopped>>
    /\ UNCHANGED calls
    /\ UNCHANGED shutdown
    /\ UNCHANGED <<dbvars, tdvars>>

\* _on_open_wrapper, lines 110-115: ws.run_forever() has connected;
\* if subscription_msg: ws.send(json.dumps(subscription_msg))
on_open_wrapper(t) ==
    /\ threads[t].st = "connecting"
    /\ threads' = [threads EXCEPT ![t].st = "open", ![t].sent = SubMsgOf(threads[t].name)]
    /\ UNCHANGED <<connections, callbacks, stop_events, reconnect_intervals,
                   caller, handled, stopped>>
    /\ UNCHANGED calls
    /\ UNCHANGED shutdown
    /\ UNCHANGED <<dbvars, tdvars>>

\* the transport fails: the connect is refused (_on_error_wrapper, line 125)
\* or the open connection is dropped; run_forever goes on to on_close
Disconnect(t) ==
    /\ threads[t].st \in {"connecting", "open"}
    /\ threads' = [threads EXCEPT ![t].st = "closed", ![t].sent = FALSE,
                                  ![t].sinceRaise = 0]
    /\ UNCHANGED <<connections, callbacks, stop_events, reconnect_intervals,
                   caller, handled, stopped>>
    /\ UNCHANGED calls
    /\ UNCHANGED shutdown
    /\ UNCHANGED <<dbvars, tdvars>>

\* faulty variant of on_message_wrapper: no try/except, the handler's exception
\* ends run_forever and the connection
on_message_wrapper_NoTry(t, raises) ==
    /\ threads[t].st = "open"
    /\ handled < MaxMsgs
    /\ IF callbacks[threads[t].name]
         THEN /\ handled' = handled + 1
              /\ threads' = IF raises
                              THEN [threads EXCEPT ![t].st = "closed",
                                                   ![t].sent = FALSE,
                                                   ![t].sinceRaise = 0]
                              ELSE threads
         ELSE /\ raises = FALSE
              /\ UNCHANGED <<handled, threads>>
    /\ UNCHANGED <<connections, callbacks, stop_events, reconnect_intervals,
                   caller, stopped, calls, shutdown>>
    /\ UNCHANGED <<dbvars, tdvars>>

\* _on_message_wrapper, lines 117-123: an inbound message on an open
\* connection; raises tells whether the handler raises on it.
\*   try: if name in self.callbacks: self.callbacks[name](message)
\*   except Exception as e: logger.error(...)
\* sinceRaise counts (up to 2) the messages passed to the handler on this
\* connection from the first one it raised on.
on_message_wrapper(t, raises) ==
    /\ threads[t].st = "open"
    /\ handled < MaxMsgs
    /\ IF callbacks[threads[t].name]
         THEN /\ handled' = handled + 1
              /\ threads' = [threads EXCEPT ![t].sinceRaise =
                               IF @ = 0 THEN (IF raises THEN 1 ELSE 0) ELSE 2]
         ELSE /\ raises = FALSE
              /\ UNCHANGED <<handled, threads>>
    /\ UNCHANGED <<connections, callbacks, stop_events, reconnect_intervals,
                   caller, stopped>>
    /\ UNCHANGED calls
    /\ UNCHANGED shutdown
    /\ UNCHANGED <<dbvars, tdvars>>

\* _on_close_wrapper, lines 137-140:
\*   if name in self.stop_events and not self.stop_events[name].is_set():
\*       interval = self.reconnect_intervals.get(name, 30); time.sleep(interval)
\* otherwise the callback returns, run_forever returns and the thread ends
on_close_wrapper(t) ==
    /\ threads[t].st = "closed"
    /\ IF stop_events[threads[t].name] = "clear"
         THEN /\ threads' = [threads EXCEPT
                     ![t].st = "sleeping",
                     ![t].wait = IF reconnect_intervals[threads[t].name] # 0
                                   THEN reconnect_intervals[threads[t].name]
                                   ELSE DefaultInterval]
              /\ UNCHANGED connections
         ELSE /\ threads' = [threads EXCEPT ![t] = FreeThread]
              /\ connections' = Unlink(t)
    /\ UNCHANGED <<callbacks, stop_events, reconnect_intervals, caller,
                   handled, stopped>>
    /\ UNCHANGED calls
    /\ UNCHANGED shutdown
    /\ UNCHANGED <<dbvars, tdvars>>

\* _on_close_wrapper, line 141, when time.sleep returns:
\*   self._start_connection_thread(name, url, subscription_msg)
\* The new thread takes the place of the sleeping one, which ends right
\* after (line 103); its websocket stays behind closed.
reconnect(t) ==
    /\ threads[t].st = "sleeping"
    /\ threads' = [threads EXCEPT
                     ![t] = [StartThread(threads[t].name)
                               EXCEPT !.superseded = threads[t].superseded,
                                      !.again = TRUE]]
    /\ connections' = Unlink(t)
    /\ UNCHANGED <<callbacks, stop_events, reconnect_intervals, caller,
                   handled, stopped>>
    /\ UNCHANGED calls
    /\ UNCHANGED shutdown
    /\ UNCHANGED <<dbvars, tdvars>>

CallerStep ==
    \/ \E n \in Names : add_connection(n)
    \/ add_connection_43
    \/ add_connection_44
    \/ add_connection_45
    \/ add_connection_77
    \/ \E n \in Names : CallClose(n)
    \/ close_connection_150
    \/ close_connection_152
    \/ close_connection_157
    \/ close_connection_163
    \/ close_all
    \/ close_all_169
    \/ close_all_173
    \/ close_all_174
    \/ close_all_175
    \/ close_all_176

ThreadStep(t) ==
    \/ run_websocket(t)
    \/ on_open_wrapper(t)
    \/ Disconnect(t)
    \/ \E r \in BOOLEAN : on_message_wrapper(t, r)
    \/ on_close_wrapper(t)
    \/ reconnect(t)

WsNext == CallerStep \/ \E t \in ThreadIds : ThreadStep(t)

\* ===================================================== the store ========
\* DatabaseManager (src/database/db_manager.py) over its two backends.  Its
\* callers are synchronous: every operation is one step.

\* calls of store_crypto_data and changes of the clock
MaxWrites == 3
MaxTicks == 2

\* get_crypto_data(self, symbol, interval, limit: int = 100)
DefaultLimit == 100

Series == {<<"BTC", "1m">>, <<"BTC", "1h">>}
Limits == {0, 1, 2, DefaultLimit}

\* the data dictionaries written: a close and, when not 0, a "timestamp"
\* entry of the candle's own
Payloads == [close : {100, 101}, timestamp : {0, 1}]

\* store_crypto_data, lines 77-85: the ttl_multiplier table, in seconds as
\* redis_client.expire takes them
Ttl(interval) ==
    CASE interval = "1m" -> 60 * 24
      [] interval = "5m" -> 60 * 24 * 3
      [] interval = "15m" -> 60 * 24 * 7
      [] interval = "1h" -> 60 * 24 * 30
      [] interval = "4h" -> 60 * 24 * 90
      [] interval = "1d" -> 60 * 24 * 365
      [] OTHER -> 60 * 24 * 7

\* the store before DatabaseManager() is called
DbInit ==
    /\ dbst = "new"
    /\ use_redis = FALSE
    /\ now = 1
    /\ zset = [k \in Series |-> {}]
    /\ expire_at = [k \in Series |-> 0]
    /\ rows = {}
    /\ result = <<>>
    /\ outcome = "none"
    /\ writes = 0
    /\ ticks = 0
    /\ rnews = [hash |-> {}, timeline |-> {}, category |-> {}, asset |-> {}]
    /\ snews = [news_data |-> {}, news_categories |-> {}, news_assets |-> {}]
    /\ ranalysis = [hash |-> {}, timeline |-> {}]
    /\ sanalysis = {}
    /\ other = [outcome |-> "none", result |-> <<>>]

\* DatabaseManager.__init__, lines 25-51, with config.USE_REDIS (configured)
\* and whether each backend can be reached
DatabaseManager_init(configured, redisUp, sqliteUp) ==
    /\ dbst = "new"
    /\ use_redis' = (configured /\ redisUp)
    /\ dbst' = IF (configured /\ redisUp) \/ sqliteUp THEN "ready" ELSE "failed"
    /\ UNCHANGED <<now, zset, expire_at, rows, result, outcome, writes, ticks>>
    /\ UNCHANGED <<wsvars, tdvars, dbrest>>

\* time passes: by two seconds, or by a second less than the retention age
\* of the "1m" tier
Tick(d) ==
    /\ ticks < MaxTicks
    /\ ticks' = ticks + 1
    /\ now' = now + d
    /\ UNCHANGED <<dbst, use_redis, zset, expire_at, rows, result, outcome, writes>>
    /\ UNCHANGED <<wsvars, tdvars, dbrest>>

\* the wall clock is set back by a second (time.time() is not monotonic)
ClockBack ==
    /\ ticks < MaxTicks
    /\ now > 0
    /\ ticks' = ticks + 1
    /\ now' = now - 1
    /\ UNCHANGED <<dbst, use_redis, zset, expire_at, rows, result, outcome, writes>>
    /\ UNCHANGED <<wsvars, tdvars, dbrest>>

\* json.dumps(data): the text of the dictionary, here the sequence of its
\* values in key order; "timestamp" is left out when the data has none
Dumps(data) ==
    IF data.timestamp = 0 THEN <<data.close>> ELSE <<data.close, data.timestamp>>

\* json.loads(text)
Loads(text) ==
    [close |-> text[1], timestamp |-> IF Len(text) > 1 THEN text[2] ELSE 0]

\* the order of two texts as Redis compares members: byte by byte
RECURSIVE TextLess(_, _)
TextLess(a, b) ==
    IF a = <<>> THEN b # <<>>
    ELSE IF b = <<>> THEN FALSE
    ELSE IF a[1] # b[1] THEN a[1] < b[1]
    ELSE TextLess(Tail(a), Tail(b))

\* Redis: a key past its expiry time does not exist
Zlive(k) == IF expire_at[k] # 0 /\ expire_at[k] <= now THEN {} ELSE zset[k]

\* Redis ZADD key {member: score}: the member's score is set, the member
\* added if it is new
Zadd(set, member, score) ==
    {e \in set : e.member # member} \cup {[member |-> member, score |-> score]}

\* Redis ZREVRANGE order: by score descending, equal scores by member
\* descending
ZBefore(e, f) ==
    \/ e.score > f.score
    \/ e.score = f.score /\ TextLess(f.member, e.member)

RECURSIVE ZrevSeq(_)
ZrevSeq(set) ==
    IF set = {} THEN <<>>
    ELSE LET first == CHOOSE e \in set : \A f \in set \ {e} : ZBefore(e, f)
         IN <<first>> \o ZrevSeq(set \ {first})

\* Redis ZREVRANGE key start stop WITHSCORES: a negative index counts from
\* the end, the range is cut to the set
Zrevrange(set, start, stop) ==
    LET all == ZrevSeq(set)
        n == Len(all)
        lo == IF start < 0 THEN (IF n + start < 0 THEN 0 ELSE n + start) ELSE start
        hi == IF stop < 0 THEN n + stop ELSE (IF stop >= n THEN n - 1 ELSE stop)
    IN IF lo > hi \/ lo >= n THEN <<>> ELSE SubSeq(all, lo + 1, hi + 1)

\* sorted(data_list, key=lambda x: x["timestamp"]): a stable sort
RECURSIVE SortByTimestamp(_)
SortByTimestamp(list) ==
    IF list = <<>> THEN <<>>
    ELSE LET i == CHOOSE i \in 1..Len(list) :
                    /\ \A j \in 1..Len(list) : list[i].timestamp <= list[j].timestamp
                    /\ \A j \in 1..(i - 1) : list[j].timestamp # list[i].timestamp
         IN <<list[i]>> \o
            SortByTimestamp(SubSeq(list, 1, i - 1) \o SubSeq(list, i + 1, Len(list)))

\* SQLite: SELECT * FROM crypto_data WHERE symbol = ? AND interval = ?
\* ORDER BY timestamp DESC LIMIT ?  (a negative LIMIT is no limit)
RECURSIVE RowsDesc(_)
RowsDesc(set) ==
    IF set = {} THEN <<>>
    ELSE LET first == CHOOSE r \in set : \A q \in set : q.timestamp <= r.timestamp
         IN <<first>> \o RowsDesc(set \ {first})

Select(k, limit) ==
    LET all == RowsDesc({r \in rows : r.series = k})
    IN IF limit < 0 \/ limit >= Len(all) THEN all ELSE SubSeq(all, 1, limit)

\* store_crypto_data on Redis, lines 75-91 (the hash crypto:<symbol>:
\* <interval> written at line 75 is read by no operation and is left out)
StoreRedis(k, data) ==
    /\ zset' = [zset EXCEPT ![k] = Zadd(Zlive(k), Dumps(data), now)]
    /\ expire_at' = [expire_at EXCEPT ![k] = now + Ttl(k[2])]
    /\ outcome' = "ok"
    /\ UNCHANGED rows

\* store_crypto_data on SQLite, lines 94-111: the INSERT fails on
\* UNIQUE(symbol, interval, timestamp) (schema.py:28) and the error is raised
StoreSqlite(k, data) ==
    /\ IF \E r \in rows : r.series = k /\ r.timestamp = now
         THEN /\ outcome' = "IntegrityError"
              /\ UNCHANGED rows
         ELSE /\ outcome' = "ok"
              /\ rows' = rows \cup
                   {[id |-> Cardinality(rows) + 1, series |-> k,
                     timestamp |-> now, data_json |-> Dumps(data)]}
    /\ UNCHANGED <<zset, expire_at>>

\* faulty variant of store_crypto_data: a write that SQLite rejects is
\* repeated on Redis, and the manager stays on Redis
store_crypto_data_Fallback(k, data) ==
    /\ dbst = "ready"
    /\ writes < MaxWrites
    /\ writes' = writes + 1
    /\ IF use_redis THEN StoreRedis(k, data) /\ UNCHANGED use_redis
       ELSE IF \E r \in rows : r.series = k /\ r.timestamp = now
              THEN StoreRedis(k, data) /\ use_redis' = TRUE
              ELSE StoreSqlite(k, data) /\ UNCHANGED use_redis
    /\ UNCHANGED <<dbst, now, result, ticks>>
    /\ UNCHANGED <<wsvars, tdvars, dbrest>>

\* store_crypto_data(symbol, interval, data), lines 69-111
store_crypto_data(k, data) ==
    /\ dbst = "ready"
    /\ writes < MaxWrites
    /\ writes' = writes + 1
    /\ IF use_redis THEN StoreRedis(k, data) ELSE StoreSqlite(k, data)
    /\ UNCHANGED <<dbst, use_redis, now, result, ticks>>
    /\ UNCHANGED <<wsvars, tdvars, dbrest>>

\* faulty variant of GetRedis: the list is returned as ZREVRANGE gave it
GetRedis_Unsorted(k, limit) ==
    LET range == Zrevrange(Zlive(k), 0, limit - 1)
    IN [i \in 1..Len(range) |->
          [Loads(range[i].member) EXCEPT !.timestamp = range[i].score]]

\* get_crypto_data on Redis, lines 188-199
GetRedis(k, limit) ==
    LET range == Zrevrange(Zlive(k), 0, limit - 1)
        data_list == [i \in 1..Len(range) |->
                        [Loads(range[i].member) EXCEPT !.timestamp = range[i].score]]
    IN SortByTimestamp(data_list)

\* get_crypto_data on SQLite, lines 201-220
GetSqlite(k, limit) ==
    LET fetched == Select(k, limit)
        data_list == [i \in 1..Len(fetched) |->
                        [Loads(fetched[i].data_json)
                           EXCEPT !.timestamp = fetched[i].timestamp]]
    IN SortByTimestamp(data_list)

\* get_crypto_data(symbol, interval, limit), lines 186-220
get_crypto_data(k, limit) ==
    /\ dbst = "ready"
    /\ result' = IF use_redis THEN GetRedis(k, limit) ELSE GetSqlite(k, limit)
    /\ outcome' = "got"
    /\ UNCHANGED <<dbst, use_redis, now, zset, expire_at, rows, writes, ticks>>
    /\ UNCHANGED <<wsvars, tdvars, dbrest>>

DbNext ==
    \/ \E c, r, q \in BOOLEAN : DatabaseManager_init(c, r, q)
    \/ \E d \in {2, Ttl("1m") - 1} : Tick(d)
    \/ ClockBack
    \/ \E k \in Series, data \in Payloads : store_crypto_data(k, data)
    \/ \E k \in Series, limit \in Limits : get_crypto_data(k, limit)

\* ------------------------------------------------------------- news --

\* calls of store_news_data
MaxNews == 2

\* get_news_data(self, limit: int = 50, category=None, asset=None)
DefaultNewsLimit == 50

\* store_news_data, line 129: the expiry of a news:<id> hash, 7 days
NewsTtl == 60 * 60 * 24 * 7

\* the news dictionaries written: "id" (0 when the key is missing), the
\* "source" the caller also passes as the source argument (main.py:224), and
\* the "related_assets" and "categories" lists (<<>> when the key is missing)
NewsItems ==
    [id : {0, 1, 2}, source : {"rss"},
     related_assets : {<<>>, <<"BTC">>}, categories : {<<>>, <<"market">>}]

NewsLimits == {0, 1, DefaultNewsLimit}

\* the filters of get_news_data, "" for None
Categories == {"", "market"}
Assets == {"", "BTC", "ETH"}

\* line 122: news_data.get("id", f"{source}_{timestamp}"), a pair of the
\* kind of id (0 given, 1 made from source and time) and its number
NewsId(item) == IF item.id # 0 THEN <<0, item.id>> ELSE <<1, now>>

\* the elements of a sequence
Range(seq) == {seq[i] : i \in 1..Len(seq)}

\* the orders in which the elements of a set can be listed
Perms(set) ==
    {f \in [1..Cardinality(set) -> set] : \A i, j \in 1..Cardinality(set) :
                                              f[i] = f[j] => i = j}

\* list[:limit] for limit >= 0
Take(list, limit) ==
    IF limit >= Len(list) THEN list ELSE SubSeq(list, 1, limit)

\* Redis: the live news:<id> hashes; a hash past its expiry does not exist
NewsLive == {h \in rnews.hash : h.expire_at > now}

\* store_news_data on Redis, lines 125-139.  redis-py encodes the values
\* of the mapping before the command is sent and raises DataError for a
\* list, so a dictionary with a related_assets or categories list is
\* rejected at line 127 with nothing written.
StoreNewsRedis(item) ==
    IF item.related_assets # <<>> \/ item.categories # <<>>
      THEN /\ outcome' = "DataError"
           /\ UNCHANGED rnews
      ELSE /\ outcome' = "ok"
           /\ rnews' =
                [rnews EXCEPT
                   !.hash = {h \in NewsLive : h.news_id # NewsId(item)} \cup
                              {[news_id |-> NewsId(item), id |-> item.id,
                                source |-> item.source, timestamp |-> now,
                                expire_at |-> now + NewsTtl]},
                   !.timeline = Zadd(rnews.timeline, NewsId(item), now)]

\* store_news_data on SQLite, lines 141-172: the INSERT fails on the UNIQUE
\* news_id (schema.py:41) and the error is raised
StoreNewsSqlite(item) ==
    IF \E r \in snews.news_data : r.news_id = NewsId(item)
      THEN /\ outcome' = "IntegrityError"
           /\ UNCHANGED snews
      ELSE /\ outcome' = "ok"
           /\ snews' =
                [news_data |-> snews.news_data \cup
                   {[news_id |-> NewsId(item), source |-> item.source,
                     timestamp |-> now, data_json |-> item]},
                 news_categories |-> snews.news_categories \cup
                   {[news_id |-> NewsId(item), category |-> c] :
                      c \in Range(item.categories)},
                 news_assets |-> snews.news_assets \cup
                   {[news_id |-> NewsId(item), asset |-> a] :
                      a \in Range(item.related_assets)}]

\* store_news_data(source, news_data), lines 121-172
store_news_data(item) ==
    /\ dbst = "ready"
    /\ writes < MaxNews
    /\ writes' = writes + 1
    /\ IF use_redis THEN StoreNewsRedis(item) /\ UNCHANGED snews
                    ELSE StoreNewsSqlite(item) /\ UNCHANGED rnews
    /\ UNCHANGED <<dbst, use_redis, now, zset, expire_at, rows, result, ticks>>
    /\ UNCHANGED <<ranalysis, sanalysis, other>>
    /\ UNCHANGED <<wsvars, tdvars>>

\* faulty variant of SortNewestFirst: reverse=True is left out
SortOldestFirst(list) == SortByTimestamp(list)

\* sorted(result, key=lambda x: x.get("timestamp", 0), reverse=True): a
\* stable sort, greatest timestamp first
RECURSIVE SortNewestFirst(_)
SortNewestFirst(list) ==
    IF list = <<>> THEN <<>>
    ELSE LET i == CHOOSE i \in 1..Len(list) :
                    /\ \A j \in 1..Len(list) : list[j].timestamp <= list[i].timestamp
                    /\ \A j \in 1..(i - 1) : list[j].timestamp # list[i].timestamp
         IN <<list[i]>> \o
            SortNewestFirst(SubSeq(list, 1, i - 1) \o SubSeq(list, i + 1, Len(list)))

\* get_news_data on Redis, lines 240-243: the ids SMEMBERS gives for a
\* category or asset filter (in no particular order)
NewsMembers(category, asset) ==
    IF category # "" THEN {m.news_id : m \in {x \in rnews.category : x.category = category}}
    ELSE IF asset # "" THEN {m.news_id : m \in {x \in rnews.asset : x.asset = asset}}
    ELSE {}

\* lines 256-267: HGETALL of each id, the ids without a hash skipped, the
\* "timestamp" turned into an int
RECURSIVE NewsDetails(_)
NewsDetails(ids) ==
    IF ids = <<>> THEN <<>>
    ELSE LET found == {h \in NewsLive : h.news_id = Head(ids)}
         IN (IF found = {} THEN <<>>
             ELSE LET h == CHOOSE h \in found : TRUE
                  IN <<[id |-> h.id, source |-> h.source, timestamp |-> h.timestamp,
                        related_assets |-> <<>>, categories |-> <<>>]>>)
            \o NewsDetails(Tail(ids))

\* get_news_data on Redis, lines 238-270; order is the order in which the
\* members of the filter's set were received
GetNewsRedis(limit, category, asset, order) ==
    LET timeline == Zrevrange(rnews.timeline, 0, limit - 1)
        news_ids == IF category # "" \/ asset # "" THEN order
                    ELSE [i \in 1..Len(timeline) |-> timeline[i].member]
    IN SortNewestFirst(NewsDetails(Take(news_ids, limit)))

\* get_news_data on SQLite, lines 284-289: the rows the WHERE clause keeps
NewsRows(category, asset) ==
    IF category # ""
      THEN {r \in snews.news_data :
              \E c \in snews.news_categories :
                 c.news_id = r.news_id /\ c.category = category}
    ELSE IF asset # ""
      THEN {r \in snews.news_data :
              \E a \in snews.news_assets : a.news_id = r.news_id /\ a.asset = asset}
    ELSE snews.news_data

\* GROUP_CONCAT(DISTINCT ...) of a news item's categories or assets, split
\* at the commas (lines 303-306)
Concat(set) == CHOOSE seq \in Perms(set) : TRUE

\* get_news_data on SQLite, lines 291-310; order is the order in which
\* ORDER BY n.timestamp DESC gave the rows
GetNewsSqlite(limit, order) ==
    LET fetched == Take(order, limit)
    IN [i \in 1..Len(fetched) |->
          LET row == fetched[i]
              cats == {c.category : c \in {x \in snews.news_categories :
                                             x.news_id = row.news_id}}
              assets == {a.asset : a \in {x \in snews.news_assets :
                                            x.news_id = row.news_id}}
          IN [id |-> row.data_json.id, source |-> row.data_json.source,
              timestamp |-> row.timestamp,
              related_assets |-> IF assets # {} THEN Concat(assets)
                                 ELSE row.data_json.related_assets,
              categories |-> IF cats # {} THEN Concat(cats)
                             ELSE row.data_json.categories]]

\* the orders the backend can hand the candidates over in: any order of a
\* Redis set, any order of the rows that descends by timestamp
NewsOrders(category, asset) ==
    IF use_redis THEN Perms(NewsMembers(category, asset))
    ELSE {o \in Perms(NewsRows(category, asset)) :
            \A i, j \in 1..Len(o) : i < j => o[i].timestamp >= o[j].timestamp}

\* get_news_data(limit, category, asset), lines 237-310
get_news_data(limit, category, asset) ==
    /\ dbst = "ready"
    /\ \E order \in NewsOrders(category, asset) :
          result' = IF use_redis THEN GetNewsRedis(limit, category, asset, order)
                    ELSE GetNewsSqlite(limit, order)
    /\ outcome' = "news"
    /\ UNCHANGED <<dbst, use_redis, now, zset, expire_at, rows, writes, ticks>>
    /\ UNCHANGED dbrest
    /\ UNCHANGED <<wsvars, tdvars>>

NewsNext ==
    \/ \E c, r, q \in BOOLEAN : DatabaseManager_init(c, r, q)
    \/ \E d \in {1, NewsTtl} : Tick(d)
    \/ ClockBack
    \/ \E item \in NewsItems : store_news_data(item)
    \/ \E limit \in NewsLimits, category \in Categories, asset \in Assets :
          get_news_data(limit, category, asset)

\* --------------------------------------------------------- analysis --

\* calls of store_analysis_result
MaxAnalyses == 2

\* store_analysis_result, line 359: the expiry of an analysis:<id> hash,
\* 30 days
AnalysisTtl == 60 * 60 * 24 * 30

\* Python values as <<type, value>>: a str (that is no JSON text) or an int
Reports == [summary : {<<"str", 1>>, <<"str", 2>>, <<"int", 42>>}]

\* the text Redis keeps for a hash value: a str as it is, an int as its
\* digits
RedisText(v) ==
    IF v[1] = "str" THEN <<"text", v[2]>> ELSE <<"digits", v[2]>>

\* get_latest_analysis, lines 399-404: json.loads(v), the text kept when it
\* is no JSON
LoadsOrKeep(text) ==
    IF text[1] = "digits" THEN <<"int", text[2]>> ELSE <<"str", text[2]>>

\* json.dumps(analysis_data) and json.loads(row["data_json"]), lines 377
\* and 421
DumpsReport(data) == <<"json", data>>
LoadsReport(text) == text[2]

\* the dictionaries get_latest_analysis returns, with the keys they have
Snapshot(summary, timestamp) ==
    [keys |-> {"summary", "timestamp"}, summary |-> summary, timestamp |-> timestamp]
EmptyDict == [keys |-> {}, summary |-> <<"str", 0>>, timestamp |-> 0]

\* Redis: the live analysis:<id> hashes
AnalysisLive == {h \in ranalysis.hash : h.expire_at > now}

\* store_analysis_result on Redis, lines 349-362; analysis_id is
\* f"analysis_{timestamp}", here the timestamp
StoreAnalysisRedis(data) ==
    /\ outcome' = "ok"
    /\ ranalysis' =
         [hash |-> {h \in AnalysisLive : h.analysis_id # now} \cup
                     {[analysis_id |-> now, summary |-> RedisText(data.summary),
                       timestamp |-> RedisText(<<"int", now>>),
                       expire_at |-> now + AnalysisTtl, written |-> data]},
          timeline |-> Zadd(ranalysis.timeline, now, now)]
    /\ UNCHANGED sanalysis

\* store_analysis_result on SQLite, lines 364-380: the INSERT fails on the
\* UNIQUE analysis_id (schema.py:77) and the error is raised
StoreAnalysisSqlite(data) ==
    /\ IF \E r \in sanalysis : r.analysis_id = now
         THEN /\ outcome' = "IntegrityError"
              /\ UNCHANGED sanalysis
         ELSE /\ outcome' = "ok"
              /\ sanalysis' = sanalysis \cup
                   {[analysis_id |-> now, timestamp |-> now,
                     data_json |-> DumpsReport(data), written |-> data]}
    /\ UNCHANGED ranalysis

\* store_analysis_result(analysis_data), lines 345-380
store_analysis_result(data) ==
    /\ dbst = "ready"
    /\ writes < MaxAnalyses
    /\ writes' = writes + 1
    /\ IF use_redis THEN StoreAnalysisRedis(data) ELSE StoreAnalysisSqlite(data)
    /\ UNCHANGED <<dbst, use_redis, now, zset, expire_at, rows, result, ticks>>
    /\ UNCHANGED <<rnews, snews, other>>
    /\ UNCHANGED <<wsvars, tdvars>>

\* get_latest_analysis on Redis, lines 391-406: None is <<>>, a dictionary
\* d is <<d>>
GetLatestRedis ==
    LET latest == Zrevrange(ranalysis.timeline, 0, 0)
    IN IF latest = <<>> THEN <<>>
       ELSE LET found == {h \in AnalysisLive : h.analysis_id = latest[1].member}
            IN IF found = {} THEN <<EmptyDict>>
               ELSE LET h == CHOOSE h \in found : TRUE
                    IN <<Snapshot(LoadsOrKeep(h.summary), LoadsOrKeep(h.timestamp)[2])>>

\* get_latest_analysis on SQLite, lines 408-424
GetLatestSqlite ==
    IF sanalysis = {} THEN <<>>
    ELSE LET row == CHOOSE r \in sanalysis : \A q \in sanalysis : q.timestamp <= r.timestamp
         IN <<Snapshot(LoadsReport(row.data_json).summary, row.timestamp)>>

\* get_latest_analysis(), lines 389-424
get_latest_analysis ==
    /\ dbst = "ready"
    /\ result' = IF use_redis THEN GetLatestRedis ELSE GetLatestSqlite
    /\ outcome' = "analysis"
    /\ UNCHANGED <<dbst, use_redis, now, zset, expire_at, rows, writes, ticks>>
    /\ UNCHANGED dbrest
    /\ UNCHANGED <<wsvars, tdvars>>

AnalysisNext ==
    \/ \E c, r, q \in BOOLEAN : DatabaseManager_init(c, r, q)
    \/ \E d \in {1, AnalysisTtl} : Tick(d)
    \/ ClockBack
    \/ \E data \in Reports : store_analysis_result(data)
    \/ get_latest_analysis

\* ------------------------------------------------- the two backends --

\* Two DatabaseManager objects, the first on Redis and the second on
\* SQLite, are given the same calls with the same arguments at the same
\* clock readings.  use_redis, outcome and result are those of the manager
\* being called; other keeps the call and what the first manager answered.

\* the calls made: the operation and its arguments
PairCalls ==
    [name : {"store_crypto_data"}, args : Series \X Payloads] \cup
    [name : {"get_crypto_data"}, args : Series \X Limits] \cup
    [name : {"store_news_data"}, args : NewsItems \X {0}] \cup
    [name : {"get_news_data"}, args : NewsLimits \X Categories \X Assets] \cup
    [name : {"store_analysis_result"}, args : Reports \X {0}] \cup
    [name : {"get_latest_analysis"}, args : {<<0, 0>>}]

\* both managers are constructed: DatabaseManager() with USE_REDIS set and
\* Redis answering, DatabaseManager() with USE_REDIS unset
PairStart ==
    /\ DatabaseManager_init(TRUE, TRUE, TRUE)

\* the next call is chosen and goes to the manager on Redis
PairBegin(call) ==
    /\ dbst = "ready"
    /\ other.outcome # "first" /\ other.outcome # "second"
    /\ other' = [outcome |-> "first", result |-> <<call>>]
    /\ use_redis' = TRUE
    /\ outcome' = "calling"
    /\ result' = <<>>
    /\ UNCHANGED <<dbst, now, zset, expire_at, rows, writes, ticks>>
    /\ UNCHANGED <<rnews, snews, ranalysis, sanalysis>>
    /\ UNCHANGED <<wsvars, tdvars>>

\* the call on hand, while the manager called has not answered
Calling(name) ==
    /\ other.outcome \in {"first", "second"}
    /\ outcome = "calling"
    /\ other.result[1].name = name

\* the first manager has answered: the same call goes to the manager on
\* SQLite
PairSwitch ==
    /\ other.outcome = "first"
    /\ outcome # "calling"
    /\ other' = [outcome |-> "second",
                 result |-> <<other.result[1], outcome, result>>]
    /\ use_redis' = FALSE
    /\ outcome' = "calling"
    /\ result' = <<>>
    /\ UNCHANGED <<dbst, now, zset, expire_at, rows, writes, ticks>>
    /\ UNCHANGED <<rnews, snews, ranalysis, sanalysis>>
    /\ UNCHANGED <<wsvars, tdvars>>

\* the second manager has answered: both answers are kept side by side
PairEnd ==
    /\ other.outcome = "second"
    /\ outcome # "calling"
    /\ other' = [outcome |-> "both",
                 result |-> <<other.result[2], other.result[3], outcome, result>>]
    /\ UNCHANGED <<dbst, use_redis, now, zset, expire_at, rows, result, outcome,
                   writes, ticks>>
    /\ UNCHANGED <<rnews, snews, ranalysis, sanalysis>>
    /\ UNCHANGED <<wsvars, tdvars>>

\* time passes between two calls
PairTick(d) ==
    /\ other.outcome \notin {"first", "second"}
    /\ Tick(d)

\* the manager on hand carries out the call
PairStoreCrypto(k, data) ==
    /\ Calling("store_crypto_data") /\ other.result[1].args = <<k, data>>
    /\ store_crypto_data(k, data)

PairGetCrypto(k, limit) ==
    /\ Calling("get_crypto_data") /\ other.result[1].args = <<k, limit>>
    /\ get_crypto_data(k, limit)

PairStoreNews(item) ==
    /\ Calling("store_news_data") /\ other.result[1].args = <<item, 0>>
    /\ store_news_data(item)

PairGetNews(limit, category, asset) ==
    /\ Calling("get_news_data") /\ other.result[1].args = <<limit, category, asset>>
    /\ get_news_data(limit, category, asset)

PairStoreAnalysis(data) ==
    /\ Calling("store_analysis_result") /\ other.result[1].args = <<data, 0>>
    /\ store_analysis_result(data)

PairGetLatest ==
    /\ Calling("get_latest_analysis")
    /\ get_latest_analysis

PairNext ==
    \/ PairStart
    \/ \E call \in PairCalls : PairBegin(call)
    \/ PairSwitch
    \/ PairEnd
    \/ \E d \in {1, Ttl("1m")} : PairTick(d)
    \/ \E k \in Series, data \in Payloads : PairStoreCrypto(k, data)
    \/ \E k \in Series, limit \in Limits : PairGetCrypto(k, limit)
    \/ \E item \in NewsItems : PairStoreNews(item)
    \/ \E limit \in NewsLimits, category \in Categories, asset \in Assets :
          PairGetNews(limit, category, asset)
    \/ \E data \in Reports : PairStoreAnalysis(data)
    \/ PairGetLatest

\* ------------------------------------------------------ TrendDetector --
\* TrendDetector (src/analysis/trend_detector.py): pure functions of a
\* candle list.  Numbers are exact fractions [n, d] with d > 0; the two
\* float values that are no numbers are NaN and Inf.

Num(n, d) == [k |-> "num", n |-> n, d |-> d]
Zero == Num(0, 1)
NaN == [k |-> "nan", n |-> 0, d |-> 1]
Inf == [k |-> "inf", n |-> 1, d |-> 1]

\* a > b and a < b on floats: False when either side is NaN
Gt(a, b) ==
    /\ a.k # "nan" /\ b.k # "nan"
    /\ \/ a.k = "inf" /\ b.k = "num"
       \/ a.k = "num" /\ b.k = "num" /\ a.n * b.d > b.n * a.d
Lt(a, b) == Gt(b, a)

\* a / b on pandas floats: x/0 is inf (or NaN for 0/0), never an exception
Div(a, b) ==
    IF a.k = "nan" \/ b.k = "nan" THEN NaN
    ELSE IF b.n = 0 THEN (IF a.n = 0 THEN NaN ELSE Inf)
    ELSE IF b.n > 0 THEN Num(a.n * b.d, a.d * b.n)
    ELSE Num(-(a.n * b.d), -(a.d * b.n))

\* the candles: a close, with high and low one above and below it
Candle(t, c) ==
    [timestamp |-> t, close |-> c, high |-> c + 1, low |-> c - 1, volume |-> 10 * c]

\* the longest input, the short inputs' closes, the level the ramps start at
MaxCandles == 15
MaxShort == 4
MaxClose == 3
Base == 20
Windows == 1..3

\* every list of up to MaxShort candles with closes in 1..MaxClose
ShortInputs ==
    UNION {{[i \in 1..n |-> Candle(i, f[i])] : f \in [1..n -> 1..MaxClose]} :
             n \in 0..MaxShort}

\* closes that rise by one u times, stay f times and fall by one d times,
\* or fall first and rise last
Ramp(u, f, d, upFirst) ==
    [i \in 1..(1 + u + f + d) |->
       Candle(i, IF upFirst
                   THEN (IF i - 1 <= u THEN Base + (i - 1)
                         ELSE IF i - 1 <= u + f THEN Base + u
                         ELSE Base + u - (i - 1 - u - f))
                   ELSE (IF i - 1 <= d THEN Base - (i - 1)
                         ELSE IF i - 1 <= d + f THEN Base - d
                         ELSE Base - d + (i - 1 - d - f)))]

RampInputs ==
    {Ramp(u, f, d, b) : u \in 0..(MaxCandles - 1), f \in 0..(MaxCandles - 1),
                        d \in 0..(MaxCandles - 1), b \in BOOLEAN}

\* the longest step input and the greatest height of its step
MaxLong == 21
MaxJump == 2

\* n candles, the last k of them j above the level of the others
Step(n, k, j) ==
    [i \in 1..n |-> Candle(i, IF i > n - k THEN Base + j ELSE Base)]

StepInputs ==
    {Step(n, k, j) : n \in 20..MaxLong, k \in 1..10, j \in (-MaxJump)..MaxJump}

Inputs == ShortInputs \cup {r \in RampInputs : Len(r) <= MaxCandles} \cup StepInputs

\* no detector has been called
TrendInit ==
    /\ td_data = <<>>
    /\ td_window = 0
    /\ detected = [fn |-> "none", keys |-> {}]

\* arithmetic on numbers (NaN in, NaN out)
Sub(a, b) ==
    IF a.k # "num" \/ b.k # "num" THEN NaN
    ELSE Num(a.n * b.d - b.n * a.d, a.d * b.d)

Mul(a, b) ==
    IF a.k # "num" \/ b.k # "num" THEN NaN ELSE Num(a.n * b.n, a.d * b.d)

\* min(1.0, x)
Min1(x) == IF x.k = "num" /\ x.n < x.d THEN x ELSE Num(1, 1)

\* a column of the DataFrame
Column(df, name) ==
    [i \in 1..Len(df) |->
       CASE name = "close" -> df[i].close
         [] name = "high" -> df[i].high
         [] name = "low" -> df[i].low
         [] name = "volume" -> df[i].volume]

RECURSIVE SumRange(_, _, _)
SumRange(series, lo, hi) ==
    IF lo > hi THEN 0 ELSE series[lo] + SumRange(series, lo + 1, hi)

\* series.rolling(window=w).mean() at row i (rows count from 1): NaN until
\* w rows are there
RollingMean(series, w, i) ==
    IF i < w \/ i < 1 \/ i > Len(series) THEN NaN
    ELSE Num(SumRange(series, i - w + 1, i), w)

\* the greatest and the least value of a non-empty series
MaxOf(series) == CHOOSE x \in Range(series) : \A y \in Range(series) : y <= x
MinOf(series) == CHOOSE x \in Range(series) : \A y \in Range(series) : x <= y

\* df.tail(k)
TailRows(series, k) ==
    IF Len(series) <= k THEN series
    ELSE SubSeq(series, Len(series) - k + 1, Len(series))

\* detect_price_trends(data, window), lines 28-83; the candles all have
\* the close, high and low columns
PriceTrends(df, w) ==
    IF df = <<>> \/ Len(df) < w
      THEN [fn |-> "price", keys |-> {"trend", "strength", "support", "resistance"},
            trend |-> "unknown", strength |-> Zero,
            support |-> Zero, resistance |-> Zero]
      ELSE LET n == Len(df)
               sma == [i \in 1..n |-> RollingMean(Column(df, "close"), w, i)]
               last_sma == sma[n]
               prev_sma == sma[n - w + 1]
               trend == IF n > w
                          THEN (IF Gt(last_sma, prev_sma) THEN "uptrend"
                                ELSE IF Lt(last_sma, prev_sma) THEN "downtrend"
                                ELSE "sideways")
                          ELSE "unknown"
               strength ==
                 CASE trend = "uptrend" ->
                        IF Gt(prev_sma, Zero)
                          THEN Min1(Mul(Div(Sub(last_sma, prev_sma), prev_sma), Num(5, 1)))
                          ELSE Num(1, 2)
                   [] trend = "downtrend" ->
                        IF Gt(prev_sma, Zero)
                          THEN Min1(Mul(Div(Sub(prev_sma, last_sma), prev_sma), Num(5, 1)))
                          ELSE Num(1, 2)
                   [] trend = "sideways" -> Num(1, 10)
                   [] OTHER -> Zero
               resistance == Num(MaxOf(TailRows(Column(df, "high"), 20)), 1)
               support == Num(MinOf(TailRows(Column(df, "low"), 20)), 1)
               last_close == Num(df[n].close, 1)
           IN [fn |-> "price",
               keys |-> {"trend", "strength", "last_close", "support", "resistance",
                         "support_distance", "resistance_distance"},
               trend |-> trend, strength |-> strength, last_close |-> last_close,
               support |-> support, resistance |-> resistance,
               support_distance |->
                 IF Gt(last_close, Zero)
                   THEN Mul(Div(Sub(last_close, support), last_close), Num(100, 1))
                   ELSE Zero,
               resistance_distance |->
                 IF Gt(last_close, Zero)
                   THEN Mul(Div(Sub(resistance, last_close), last_close), Num(100, 1))
                   ELSE Zero]

\* detect_volume_trends(data, window), lines 96-148 (the candles all have
\* a volume; price_volume_correlation, a float of np.corrcoef, is left out
\* of the dictionary)
VolumeTrends(df, w) ==
    IF df = <<>> \/ Len(df) < w
      THEN [fn |-> "volume", keys |-> {"trend", "strength"},
            trend |-> "unknown", strength |-> Zero]
      ELSE LET n == Len(df)
               volume_sma == [i \in 1..n |-> RollingMean(Column(df, "volume"), w, i)]
               last_vol_sma == volume_sma[n]
               prev_vol_sma == volume_sma[n - w + 1]
               trend == IF n > w
                          THEN (IF Gt(last_vol_sma, Mul(prev_vol_sma, Num(12, 10)))
                                  THEN "increasing"
                                ELSE IF Lt(last_vol_sma, Mul(prev_vol_sma, Num(8, 10)))
                                  THEN "decreasing"
                                ELSE "stable")
                          ELSE "unknown"
               strength ==
                 CASE trend = "increasing" ->
                        IF Gt(prev_vol_sma, Zero)
                          THEN Min1(Div(Sub(last_vol_sma, prev_vol_sma), prev_vol_sma))
                          ELSE Num(1, 2)
                   [] trend = "decreasing" ->
                        IF Gt(prev_vol_sma, Zero)
                          THEN Min1(Div(Sub(prev_vol_sma, last_vol_sma), prev_vol_sma))
                          ELSE Num(1, 2)
                   [] trend = "stable" -> Num(1, 10)
                   [] OTHER -> Zero
           IN [fn |-> "volume",
               keys |-> {"trend", "strength", "avg_volume", "price_volume_correlation"},
               trend |-> trend, strength |-> strength,
               avg_volume |-> Num(SumRange(Column(df, "volume"), 1, n), n)]

\* a <= b and a >= b on floats: False when either side is NaN
Le(a, b) ==
    /\ a.k # "nan" /\ b.k # "nan"
    /\ \/ a.k = "num" /\ b.k = "inf"
       \/ a.k = "num" /\ b.k = "num" /\ a.n * b.d <= b.n * a.d
       \/ a.k = "inf" /\ b.k = "inf"
Ge(a, b) == Le(b, a)

\* line 168: df['close'].diff(), NaN in the first row; lines 169-170:
\* where(delta > 0, 0) and -where(delta < 0, 0) put 0 where the test is
\* False, the first row included
Gain(closes) ==
    [i \in 1..Len(closes) |->
       IF i > 1 /\ closes[i] > closes[i - 1] THEN closes[i] - closes[i - 1] ELSE 0]
Loss(closes) ==
    [i \in 1..Len(closes) |->
       IF i > 1 /\ closes[i] < closes[i - 1] THEN closes[i - 1] - closes[i] ELSE 0]

\* faulty variant of RsiOf: the relative strength itself, as a percentage
RsiOf_Unbounded(rs) ==
    IF rs.k = "nan" THEN NaN
    ELSE IF rs.k = "inf" THEN Inf
    ELSE Mul(rs, Num(100, 1))

\* line 176: 100 - (100 / (1 + rs)); 100 / inf is 0
RsiOf(rs) ==
    IF rs.k = "nan" THEN NaN
    ELSE IF rs.k = "inf" THEN Num(100, 1)
    ELSE Sub(Num(100, 1), Div(Num(100, 1), Num(rs.n + rs.d, rs.d)))

\* detect_momentum(data), lines 160-218 (macd, macd_signal, macd_histogram
\* and macd_trend, exponential averages in floats, are left out of the
\* dictionary)
Momentum(input) ==
    IF input = <<>> \/ Len(input) < 14
      THEN [fn |-> "momentum", keys |-> {"rsi", "momentum"},
            rsi |-> Zero, momentum |-> Zero]
      ELSE LET df == SortByTimestamp(input)
               n == Len(df)
               closes == Column(df, "close")
               rsi == [i \in 1..n |->
                         RsiOf(Div(RollingMean(Gain(closes), 14, i),
                                   RollingMean(Loss(closes), 14, i)))]
               momentum == IF closes[n - 9] > 0
                             THEN Div(Num(closes[n] - closes[n - 9], 1),
                                      Num(closes[n - 9], 1))
                             ELSE Zero
               momentum_trend ==
                 IF Gt(rsi[n], Num(70, 1)) THEN "overbought"
                 ELSE IF Lt(rsi[n], Num(30, 1)) THEN "oversold"
                 ELSE IF Gt(rsi[n], Num(50, 1)) /\ Le(rsi[n - 1], Num(50, 1))
                   THEN "bullish_crossover"
                 ELSE IF Lt(rsi[n], Num(50, 1)) /\ Ge(rsi[n - 1], Num(50, 1))
                   THEN "bearish_crossover"
                 ELSE "neutral"
           IN [fn |-> "momentum",
               keys |-> {"rsi", "macd", "macd_signal", "macd_histogram", "momentum",
                         "momentum_trend", "macd_trend"},
               rsi |-> IF rsi[n].k = "nan" THEN Num(50, 1) ELSE rsi[n],
               momentum |-> momentum,
               momentum_trend |-> momentum_trend]

\* lines 241-245: the true range of each row, the greatest of high - low,
\* |high - previous close| and |low - previous close| (the first row has no
\* previous close)
Abs(x) == IF x < 0 THEN -x ELSE x

TrueRange(df) ==
    [i \in 1..Len(df) |->
       LET hl == df[i].high - df[i].low
       IN IF i = 1 THEN hl
          ELSE MaxOf(<<hl, Abs(df[i].high - df[i - 1].close),
                       Abs(df[i].low - df[i - 1].close)>>)]

\* a float of the form 1/2 + sign * sqrt(n / d), with d > 0
HalfPlusRoot(sign, n, d) == [k |-> "root", sign |-> sign, n |-> n, d |-> d]

\* lines 249-257: with sma20 and std20 the mean and the sample standard
\* deviation of the last 20 closes (NaN below 20 rows), the position
\* (last_close - lower_band) / (upper_band - lower_band) is
\* 1/2 + (last_close - sma20) / (4 * std20); 0.5 when the width is not > 0.
\* In twentieths: 20 * (x - sma20) = 20 * x - S, S the sum of the closes.
BollingerPosition(closes) ==
    LET n == Len(closes)
        S == SumRange(closes, n - 19, n)
        dev == [i \in 1..n |-> 20 * closes[i] - S]
        squares == SumRange([i \in 1..n |-> dev[i] * dev[i]], n - 19, n)
    IN IF n < 20 \/ squares = 0 THEN Num(1, 2)
       ELSE HalfPlusRoot(IF dev[n] < 0 THEN -1 ELSE 1,
                         19 * dev[n] * dev[n], 16 * squares)

\* detect_volatility(data), lines 230-275 (volatility and bollinger_width,
\* floats of a standard deviation, are left out of the dictionary)
Volatility(df) ==
    IF df = <<>> \/ Len(df) < 5
      THEN [fn |-> "volatility", keys |-> {"volatility", "atr"},
            volatility |-> Zero, atr |-> Zero]
      ELSE LET n == Len(df)
               tr == TrueRange(df)
               atr == RollingMean(tr, 14, n)
               recent_vol == RollingMean(tr, 5, n)
               older_vol == IF n >= 19 THEN RollingMean(tr, 14, n - 4) ELSE recent_vol
               vol_trend ==
                 IF Gt(recent_vol, Mul(older_vol, Num(12, 10))) THEN "increasing"
                 ELSE IF Lt(recent_vol, Mul(older_vol, Num(8, 10))) THEN "decreasing"
                 ELSE "stable"
           IN [fn |-> "volatility",
               keys |-> {"volatility", "atr", "bollinger_width", "bollinger_position",
                         "volatility_trend"},
               atr |-> IF atr.k = "nan" THEN Zero ELSE atr,
               bollinger_position |-> BollingerPosition(Column(df, "close")),
               volatility_trend |-> vol_trend]

\* the four detectors are called; they keep no state, so a behaviour
\* holds one call
detect_price_trends(input, w) ==
    /\ detected.fn = "none"
    /\ td_data' = input
    /\ td_window' = w
    /\ detected' = PriceTrends(input, w)
    /\ UNCHANGED <<wsvars, dbvars>>

detect_volume_trends(input, w) ==
    /\ detected.fn = "none"
    /\ td_data' = input
    /\ td_window' = w
    /\ detected' = VolumeTrends(input, w)
    /\ UNCHANGED <<wsvars, dbvars>>

detect_momentum(input) ==
    /\ detected.fn = "none"
    /\ td_data' = input
    /\ td_window' = 0
    /\ detected' = Momentum(input)
    /\ UNCHANGED <<wsvars, dbvars>>

detect_volatility(input) ==
    /\ detected.fn = "none"
    /\ td_data' = input
    /\ td_window' = 0
    /\ detected' = Volatility(input)
    /\ UNCHANGED <<wsvars, dbvars>>

TrendNext ==
    \/ \E input \in Inputs, w \in Windows : detect_price_trends(input, w)
    \/ \E input \in Inputs, w \in Windows : detect_volume_trends(input, w)
    \/ \E input \in Inputs : detect_momentum(input)
    \/ \E input \in Inputs : detect_volatility(input)

\* ------------------------------------------------- the kline stream --
\* BinanceWebSocketClient.start_kline_stream (websocket_handler.py): the
\* handler of the kline connections, run by a connection thread.

\* the inbound messages: text that is no JSON or a kline without its keys
\* ("garbage"), JSON without 'k' ("other"), a kline whose 'x' says whether
\* the candle is closed
KlineMsgs == [form : {"garbage", "other", "kline"}, x : BOOLEAN, close : {100, 101}]

\* lines 266-279: the record built of a kline of BTCUSDT, 'final' the
\* boolean kline['x']
KlineData(msg) == [close |-> msg.close, timestamp |-> 0, final |-> msg.x]

\* redis-py encodes the values of hset's mapping before the command is sent
\* and raises DataError for a bool (db_manager.py:75)
HsetRejects(data) == "final" \in DOMAIN data /\ data.final \in BOOLEAN

\* sqlite3.connect(SQLITE_DB_PATH) (db_manager.py:45) is called by the main
\* thread with check_same_thread left at its default: the connection raises
\* ProgrammingError in any other thread
SqliteRejects(thread) == thread # "MainThread"

\* on_kline_message(message), lines 256-286, called in a connection thread:
\*   try: data = json.loads(message)
\*        if 'k' in data: ...; if kline['x']: self.db_manager.store_crypto_data(...)
\*   except Exception as e: logger.error(...)
\* outcome is the exception logged at line 286, "ok" after a write,
\* "ignored" when nothing was to be done
on_kline_message(msg) ==
    /\ dbst = "ready"
    /\ IF msg.form = "kline" /\ msg.x
         THEN IF use_redis
                THEN IF HsetRejects(KlineData(msg))
                       THEN /\ outcome' = "DataError"
                            /\ UNCHANGED <<zset, expire_at, rows>>
                       ELSE StoreRedis(<<"BTC", "1m">>, KlineData(msg))
                ELSE IF SqliteRejects("WebSocketThread")
                       THEN /\ outcome' = "ProgrammingError"
                            /\ UNCHANGED <<zset, expire_at, rows>>
                       ELSE StoreSqlite(<<"BTC", "1m">>, KlineData(msg))
         ELSE /\ outcome' = IF msg.form = "other" \/ msg.form = "kline"
                              THEN "ignored" ELSE "ValueError"
              /\ UNCHANGED <<zset, expire_at, rows>>
    /\ UNCHANGED <<dbst, use_redis, now, result, writes, ticks>>
    /\ UNCHANGED <<wsvars, tdvars, dbrest>>

KlineNext ==
    \/ \E c, r, q \in BOOLEAN : DatabaseManager_init(c, r, q)
    \/ \E d \in {2, Ttl("1m") - 1} : Tick(d)
    \/ \E k \in Series, data \in Payloads : store_crypto_data(k, data)
    \/ \E msg \in KlineMsgs : on_kline_message(msg)

\* ------------------------------------------------------ specifications --

\* the stream manager, the store left alone
Init == WsInit /\ DbInit /\ TrendInit

Spec == Init /\ [][WsNext]_vars

\* the scheduler runs every thread that can take a step: a closed
\* websocket's on_close callback is called, and time.sleep returns
FairSpec ==
    /\ Spec
    /\ \A t \in ThreadIds : WF_vars(on_close_wrapper(t))
    /\ \A t \in ThreadIds : WF_vars(reconnect(t))

\* the store, the stream manager left alone
SpecDB == Init /\ [][DbNext]_vars

\* the store's news operations
SpecNews == Init /\ [][NewsNext]_vars

\* the store's analysis snapshots
SpecAnalysis == Init /\ [][AnalysisNext]_vars

\* the two backends side by side
SpecPair == Init /\ [][PairNext]_vars

\* the trend detector
SpecTrend == Init /\ [][TrendNext]_vars

\* the store with the kline stream's handler writing to it
SpecKline == Init /\ [][KlineNext]_vars

\* ------------------------------------------------------------ the claims --

Live(t) == threads[t].st = "open"

\* C1: at most one live connection (a thread running an open websocket)
\* exists per subscription name, in every reachable state.
C1_OneLivePerName ==
    \A t, u \in ThreadIds :
        (t # u /\ Live(t) /\ Live(u)) => threads[t].name # threads[u].name

\* C2: once add_connection has closed the connection registered under its
\* name, that old unit never starts a reconnect: it neither waits for one
\* nor starts a new connection thread.
C2_OldUnitTornDown ==
    \A t \in ThreadIds :
        threads[t].superseded => threads[t].st \notin {"sleeping", "new"}

\* C3: after close_connection(name) was called with the name's registered
\* connection open, no thread starts a new connection attempt for the name
\* (as long as add_connection(name) is not called again).
C3_NoAttemptAfterClose ==
    [][\A t \in ThreadIds :
          (stopped[threads'[t].name] /\ stopped'[threads'[t].name]
             /\ threads'[t].st = "new") => threads[t].st = "new"]_vars

\* C4: a unit sleeping in its reconnect wait whose stop signal has been set
\* by close_connection starts no new connection when the wait ends.
C4_SleeperHonoursStop ==
    [][\A t \in ThreadIds :
          (threads[t].st = "sleeping" /\ stop_events[threads[t].name] = "set")
             => threads'[t].st # "new"]_vars

\* the interval self.reconnect_intervals.get(name, 30) yields
RegisteredInterval(n) ==
    IF reconnect_intervals[n] # 0 THEN reconnect_intervals[n] ELSE DefaultInterval

\* C5: every reconnect wait lasts the interval the name's add_connection
\* was called with, the same on every retry.
C5_WaitIsConfigured ==
    \A t \in ThreadIds :
        threads[t].st = "sleeping" => threads[t].wait = IntervalOf(threads[t].name)

\* The part of C5 that holds (under FairSpec): a unit whose connection has
\* closed while its name's stop signal is registered and not set starts a
\* new connection attempt, unless the signal is set or removed first; this
\* holds on every retry, and each wait lasts the interval registered for
\* the name when on_close runs, 30 seconds when none is registered.
C5_Reconnects ==
    /\ \A t \in ThreadIds :
          (threads[t].st = "closed" /\ stop_events[threads[t].name] = "clear")
             ~> (threads[t].st = "new" \/ stop_events[threads[t].name] # "clear")
    /\ [][\A t \in ThreadIds :
             (threads[t].st = "closed" /\ threads'[t].st = "sleeping")
                => threads'[t].wait = RegisteredInterval(threads[t].name)]_vars
    /\ [][\A t \in ThreadIds :
             (threads[t].st = "sleeping" /\ threads'[t].st # "sleeping")
                => threads'[t].st = "new"]_vars

\* C6: when the handler raises on a message, or has raised on an earlier
\* message of the connection, the message step leaves the connection open
\* and registered as it was, starts no reconnect, and the message is passed
\* to the handler registered for the name.
C6_HandlerErrorContained ==
    [][\A t \in ThreadIds : \A r \in BOOLEAN :
          (on_message_wrapper(t, r) /\ (r \/ threads[t].sinceRaise > 0))
             => /\ threads'[t].st = "open"
                /\ connections' = connections
                /\ \A u \in ThreadIds : threads'[u].st = threads[u].st
                /\ callbacks[threads[t].name] => handled' = handled + 1]_vars

\* C6 witness: a message was passed to the handler on a connection after
\* the handler had raised on an earlier one, and the connection is open.
C6_Witness ==
    \E t \in ThreadIds : threads[t].st = "open" /\ threads[t].sinceRaise = 2

\* C7: once close_all has returned, and until add_connection is called
\* again, the four registry dictionaries are empty and no connection is open.
C7_ShutdownIsFinal ==
    shutdown =>
        /\ \A n \in Names :
              /\ connections[n] = NoConn
              /\ ~callbacks[n]
              /\ stop_events[n] = "absent"
              /\ reconnect_intervals[n] = 0
        /\ \A t \in ThreadIds : threads[t].st # "open"

\* C8: close_connection on a name with no registered connection returns
\* normally (with the warning) and changes no dictionary and no thread; and
\* close_connection leaves its name unregistered, so that a second call
\* right after it is such a call.
C8_CloseUnknownIsNoOp ==
    [][/\ (caller.pc = "cc_150" /\ caller.ret = "idle" /\ caller' # caller
             /\ connections[caller.name] = NoConn)
          => /\ caller'.pc = "idle" /\ caller'.warned
             /\ UNCHANGED <<connections, callbacks, stop_events,
                            reconnect_intervals, threads, handled>>
       /\ (caller.pc = "cc_163" /\ caller' # caller)
          => connections'[caller.name] = NoConn]_vars

\* C8 witness: a second close_connection(name) has returned with the warning
\* after a first one had set the name's stop signal and removed the name.
C8_Witness ==
    /\ caller.pc = "idle" /\ caller.warned
    /\ stop_events[caller.name] = "set"
    /\ connections[caller.name] = NoConn
    /\ calls = 3

\* C9: get_crypto_data never returns two records with the same timestamp:
\* of two writes to a series in the same clock second only one is kept.
C9_OneRecordPerKey ==
    outcome = "got" =>
        \A i, j \in 1..Len(result) :
            i < j => result[i].timestamp # result[j].timestamp

\* C10: the list get_crypto_data returns is in ascending order of
\* timestamp, whatever the order of the writes, on both backends.
C10_SortedAscending ==
    outcome = "got" =>
        \A i, j \in 1..Len(result) :
            i < j => result[i].timestamp <= result[j].timestamp

\* C10 witness: get_crypto_data has returned three records of a series, in
\* ascending order, on Redis.
C10_Witness ==
    /\ outcome = "got" /\ use_redis
    /\ Len(result) = 3
    /\ result[1].timestamp < result[2].timestamp
    /\ result[2].timestamp < result[3].timestamp

\* the records of a series that the selected backend holds: the live
\* members of the sorted set, or the rows of crypto_data
StoredRecs(k) ==
    IF use_redis THEN {[ts |-> e.score, text |-> e.member] : e \in Zlive(k)}
    ELSE {[ts |-> r.timestamp, text |-> r.data_json] : r \in {q \in rows : q.series = k}}

\* C11: for every limit >= 0, get_crypto_data returns at most limit records
\* (all of them when fewer are stored), and every returned record is among
\* the limit records of the series with the greatest timestamps.
C11_LimitedToMostRecent ==
    [][\A k \in Series, limit \in Limits :
         get_crypto_data(k, limit) =>
           /\ Len(result') = IF limit < Cardinality(StoredRecs(k))
                               THEN limit ELSE Cardinality(StoredRecs(k))
           /\ \A i \in 1..Len(result') :
                Cardinality({e \in StoredRecs(k) : e.ts > result'[i].timestamp}) < limit
      ]_vars

\* C12: a candle written under the "1m" tier is returned by a read right
\* after the write, and no read returns a candle of that tier whose age has
\* reached the tier's retention time.
C12_RetentionHonoured ==
    [][\A k \in Series : k[2] = "1m" =>
         /\ \A data \in Payloads :
              (store_crypto_data(k, data) /\ outcome' = "ok") =>
                \E e \in StoredRecs(k)' : e.ts = now /\ e.text = Dumps(data)
         /\ get_crypto_data(k, DefaultLimit) =>
              \A i \in 1..Len(result') : result'[i].timestamp + Ttl("1m") > now
      ]_vars

\* C14: DatabaseManager() selects Redis when it is configured and answers,
\* otherwise SQLite, and fails when neither can be opened; once constructed
\* the manager never changes its backend, and a write the backend rejects
\* ends as that error with nothing written and nothing retried.
C14_BackendChosenOnce ==
    [][/\ \A c, r, q \in BOOLEAN :
            DatabaseManager_init(c, r, q) =>
              /\ ((c /\ r) => (dbst' = "ready" /\ use_redis'))
              /\ ((~(c /\ r) /\ q) => (dbst' = "ready" /\ ~use_redis'))
              /\ ((~(c /\ r) /\ ~q) => dbst' = "failed")
       /\ dbst # "new" => (use_redis' = use_redis /\ dbst' = dbst)
       /\ (writes' # writes /\ outcome' # "ok") =>
            /\ outcome' = "IntegrityError"
            /\ UNCHANGED <<zset, expire_at, rows>>
      ]_vars

\* C14 witness: a manager that fell back to SQLite because Redis did not
\* answer has had a write rejected.
C14_Witness ==
    /\ dbst = "ready" /\ ~use_redis
    /\ outcome = "IntegrityError"
    /\ writes = 2

\* the news records the selected backend holds, with the assets its index
\* relates them to
HeldNews ==
    IF use_redis
      THEN {[news_id |-> h.news_id, id |-> h.id, timestamp |-> h.timestamp,
             assets |-> {x.asset : x \in {y \in rnews.asset : y.news_id = h.news_id}}] :
              h \in NewsLive}
      ELSE {[news_id |-> r.news_id, id |-> r.data_json.id, timestamp |-> r.timestamp,
             assets |-> {x.asset : x \in {y \in snews.news_assets :
                                            y.news_id = r.news_id}}] :
              r \in snews.news_data}

\* C15: a news record written under an id not yet held is stored with its
\* related assets, and get_news_data(asset=a) returns exactly the held
\* records younger than the news retention time that are related to a, up
\* to limit of them: records related to "BTC" are returned for "BTC" and
\* not for "ETH".
C15_AssetFilterExact ==
    [][/\ \A item \in NewsItems :
            (store_news_data(item) /\ NewsId(item) \notin {h.news_id : h \in HeldNews}) =>
              /\ outcome' = "ok"
              /\ \E h \in HeldNews' :
                    h.news_id = NewsId(item) /\ h.assets = Range(item.related_assets)
       /\ \A limit \in NewsLimits, a \in Assets \ {""} :
            get_news_data(limit, "", a) =>
              LET want == {h \in HeldNews : a \in h.assets /\ h.timestamp + NewsTtl > now}
              IN /\ Len(result') = IF limit < Cardinality(want)
                                     THEN limit ELSE Cardinality(want)
                 /\ \A i \in 1..Len(result') :
                      \E h \in want : /\ h.id = result'[i].id
                                      /\ h.timestamp = result'[i].timestamp
      ]_vars

\* C16: whatever news is stored and whatever the filter, the list that
\* get_news_data returns is ordered by timestamp descending.
C16_NewestFirst ==
    outcome = "news" =>
      \A i, j \in 1..Len(result) : i < j => result[i].timestamp >= result[j].timestamp

\* C16 witness: get_news_data has returned two records written at different
\* times, the later one first, on Redis.
C16_Witness ==
    /\ outcome = "news" /\ use_redis
    /\ Len(result) = 2
    /\ result[1].timestamp > result[2].timestamp

\* the snapshots that can be retrieved from the selected backend
HeldAnalyses ==
    IF use_redis THEN {[timestamp |-> h.analysis_id, written |-> h.written] : h \in AnalysisLive}
    ELSE {[timestamp |-> r.timestamp, written |-> r.written] : r \in sanalysis}

\* C17: get_latest_analysis returns None exactly when no snapshot can be
\* retrieved, and otherwise the snapshot with the greatest timestamp, with
\* the payload it was stored with.
C17_LatestOrNone ==
    [][get_latest_analysis =>
         /\ (result' = <<>>) <=> (HeldAnalyses = {})
         /\ HeldAnalyses # {} =>
              \E h \in HeldAnalyses :
                 /\ \A g \in HeldAnalyses : g.timestamp <= h.timestamp
                 /\ result' = <<Snapshot(h.written.summary, h.timestamp)>>
      ]_vars

\* C13: whatever calls are made, with the same arguments at the same clock
\* readings, the manager on Redis and the manager on SQLite end every call
\* the same way (success or the same failure) and return the same result.
C13_BackendsAgree ==
    other.outcome = "both" =>
      /\ other.result[1] = other.result[3]
      /\ other.result[2] = other.result[4]

\* the last call was given fewer candles than the detector's lookback
\* window
TooShort ==
    CASE detected.fn \in {"price", "volume"} -> Len(td_data) < td_window
      [] detected.fn = "momentum" -> Len(td_data) < 14
      [] detected.fn = "volatility" -> Len(td_data) < 5
      [] OTHER -> FALSE

\* the key under which each detector classifies its input
Classification ==
    CASE detected.fn = "momentum" -> "momentum_trend"
      [] detected.fn = "volatility" -> "volatility_trend"
      [] OTHER -> "trend"

\* C18: each of the four detectors, given fewer candles than its lookback
\* window (none at all included), returns a dictionary whose classification
\* is "unknown" and whose values are zero.
C18_ShortInputIsUnknown ==
    TooShort =>
      /\ Classification \in detected.keys
      /\ detected.fn \in {"price", "volume"} =>
           (detected.trend = "unknown" /\ detected.strength = Zero)
      /\ detected.fn = "momentum" =>
           (detected.momentum_trend = "unknown" /\ detected.rsi = Zero)
      /\ detected.fn = "volatility" =>
           (detected.volatility_trend = "unknown" /\ detected.atr = Zero)

\* the closes of the last input rise (fall) from each candle to the next
Rising == \A i \in 1..(Len(td_data) - 1) : td_data[i].close < td_data[i + 1].close
Falling == \A i \in 1..(Len(td_data) - 1) : td_data[i].close > td_data[i + 1].close

\* C19: for at least 2*W candles with strictly increasing closes,
\* detect_price_trends(window=W) returns "uptrend" with a strength above 0;
\* with strictly decreasing closes it returns "downtrend".
C19_MonotoneClosesClassified ==
    (detected.fn = "price" /\ Len(td_data) >= 2 * td_window) =>
      /\ Rising => (detected.trend = "uptrend" /\ Gt(detected.strength, Zero))
      /\ Falling => detected.trend = "downtrend"

\* C20: for 14 candles or more, the rsi that detect_momentum returns lies
\* within [0, 100], also when the window has no loss, no gain, or only
\* equal closes.
C20_RsiInRange ==
    (detected.fn = "momentum" /\ Len(td_data) >= 14) =>
      /\ Ge(detected.rsi, Zero)
      /\ Le(detected.rsi, Num(100, 1))

\* C20 witness: detect_momentum was given 15 candles with equal closes and
\* returned an rsi of 50.
C20_Witness ==
    /\ detected.fn = "momentum"
    /\ Len(td_data) = 15
    /\ \A i \in 1..Len(td_data) : td_data[i].close = Base
    /\ detected.rsi = Num(50, 1)

\* C21: the bollinger_position that detect_volatility returns lies within
\* [0, 1] for every input, and is 0.5 when the band width is zero.
\* 1/2 + sign * sqrt(n / d) is within [0, 1] exactly when n / d <= 1/4.
C21_PositionInUnitInterval ==
    (detected.fn = "volatility" /\ "bollinger_position" \in detected.keys) =>
      /\ detected.bollinger_position.k = "root" =>
           4 * detected.bollinger_position.n <= detected.bollinger_position.d
      /\ detected.bollinger_position.k = "num" =>
           (Ge(detected.bollinger_position, Zero) /\ Le(detected.bollinger_position, Num(1, 1)))
      /\ (Len(td_data) >= 20 /\
          \A i \in (Len(td_data) - 19)..Len(td_data) :
             td_data[i].close = td_data[Len(td_data)].close) =>
           detected.bollinger_position = Num(1, 2)

\* two numbers are equal
Eq(a, b) == a.k = "num" /\ b.k = "num" /\ a.n * b.d = b.n * a.d

\* C22: the momentum that detect_momentum returns is the change of the last
\* close relative to the close exactly 10 periods before it (as a fraction
\* or as a percentage), and 0 when that close is not positive.
C22_TenPeriodMomentum ==
    (detected.fn = "momentum" /\ Len(td_data) >= 14) =>
      LET last == td_data[Len(td_data)].close
          ref == td_data[Len(td_data) - 10].close
          change == Div(Num(last - ref, 1), Num(ref, 1))
      IN IF ref > 0
           THEN \/ Eq(detected.momentum, change)
                \/ Eq(detected.momentum, Mul(change, Num(100, 1)))
           ELSE Eq(detected.momentum, Zero)

\* C23: on every connection that opens, on the first connect and on a
\* reconnect alike, the subscription message has been sent exactly when it
\* is non-empty, and it is sent by the open itself: never before the
\* connection is open, and before any inbound message reaches the handler
\* (messages are passed on by open connections only).
C23_SubscribedOnOpen ==
    \A t \in ThreadIds :
       /\ threads[t].st = "open" => threads[t].sent = SubMsgOf(threads[t].name)
       /\ threads[t].st \in {"new", "connecting"} => ~threads[t].sent

\* C23: an inbound message is passed to the handler by open connections only
C23_DispatchedWhenOpen ==
    [][handled' # handled => \E t \in ThreadIds : threads[t].st = "open"]_vars

\* a reconnected connection with a message and a first connection without
\* one are open, and a message has been passed to a handler
C23_Witness ==
    /\ handled > 0
    /\ \E t, u \in ThreadIds :
          /\ threads[t].st = "open" /\ threads[t].again /\ threads[t].sent
          /\ threads[u].st = "open" /\ ~threads[u].again /\ ~threads[u].sent

\* C24: the updates of the registry are serialized: while add_connection,
\* close_connection or close_all is at work on a name, between its first and
\* its last line, no connection thread writes the registry entry of that name.
C24_RegistrySerialized ==
    [][(caller.pc # "idle" /\ caller' = caller) =>
          connections'[caller.name] = connections[caller.name]]_vars

\* C25: after close_connection(name) has returned, called when add_connection
\* had returned and the thread had not yet registered its websocket (the call
\* ends in the warning of line 165), the name has no open connection and no
\* reconnect is waiting or has been started for it.
C25_CloseBeforeRegistrationStops ==
    (caller.pc = "idle" /\ caller.warned) =>
       \A t \in ThreadIds :
          threads[t].name = caller.name =>
             /\ threads[t].st \notin {"open", "sleeping"}
             /\ threads[t].st # "free" => ~threads[t].again

\* C26: on the Redis backend, whatever writes the series goes on receiving,
\* no read returns a record whose age exceeds the retention age of the
\* series' interval.
C26_EachRecordExpires ==
    [][\A k \in Series :
         (use_redis /\ get_crypto_data(k, DefaultLimit)) =>
            \A i \in 1..Len(result') : now - result'[i].timestamp <= Ttl(k[2])
      ]_vars

\* C27: every call of store_analysis_result succeeds and adds one snapshot
\* to those held, all earlier snapshots staying as they were, also when the
\* call comes in the clock second of an earlier call, on both backends.
C27_AppendOnly ==
    [][\A data \in Reports :
         store_analysis_result(data) =>
            /\ outcome' = "ok"
            /\ HeldAnalyses \subseteq HeldAnalyses'
            /\ Cardinality(HeldAnalyses') = Cardinality(HeldAnalyses) + 1
      ]_vars

\* C28: a candle the series holds that was written with a timestamp of its
\* own is returned by get_crypto_data with that timestamp.
C28_OwnTimestampKept ==
    [][\A k \in Series :
         get_crypto_data(k, DefaultLimit) =>
            \A e \in StoredRecs(k) :
               Len(e.text) > 1 =>
                  \E i \in 1..Len(result') : result'[i] = Loads(e.text)
      ]_vars

\* the records get_news_data's filter selects on the selected backend: the
\* live hashes of the ids in the filter's set, or the rows of the WHERE clause
Matching(category, asset) ==
    IF use_redis
      THEN {[news_id |-> h.news_id, timestamp |-> h.timestamp] :
              h \in {g \in NewsLive : g.news_id \in NewsMembers(category, asset)}}
      ELSE {[news_id |-> r.news_id, timestamp |-> r.timestamp] :
              r \in NewsRows(category, asset)}

C30_FinalKlineStored ==
    [][\A msg \in KlineMsgs :
         on_kline_message(msg) =>
            IF msg.form = "kline" /\ msg.x
              THEN /\ outcome' = "ok"
                   /\ \E e \in StoredRecs(<<"BTC", "1m">>)' :
                         e.ts = now /\ Loads(e.text).close = msg.close
              ELSE /\ zset' = zset
                   /\ rows' = rows
                   /\ expire_at' = expire_at
      ]_vars
====
